---------------------------- MODULE Spec2Model ----------------------------
(***************************************************************************)
(* A model of the channel based pubsub emitter of src/emitter.go: the      *)
(* registry (listeners, middlewares, one mutex), Emit with its synchronous *)
(* and asynchronous deliveries, the done channel, pushEvent/send, Off and  *)
(* the consumers of the listener channels.                                 *)
(***************************************************************************)
EXTENDS Integers, Sequences, FiniteSets, TLC

(***************************************************************************)
(* Bounds of the model.                                                    *)
(***************************************************************************)
MaxListeners == 2
MaxPubs == 2
MaxCap == 1
MaxCalls == 2
MaxOuts == 2
MaxSends == 2

\* g := &Group{Cap: 5} of TestGroupBasic
GroupCap == 5

(***************************************************************************)
(* Topics are strings; they are modelled as sequences of one-character     *)
(* strings so that path.Match can be computed on them.                     *)
(***************************************************************************)
TopicA == <<"a">>
TopicB == <<"b">>
TopicStar == <<"*">>
TopicBad == <<"\\">>

(***************************************************************************)
(* path.Match, as called at emitter.go:111,321,323,340,345 and wrapped by  *)
(* matcher.go:24: scanChunk / matchChunk / Match of the Go library for the *)
(* pattern characters '*', '\' and literals.                               *)
(***************************************************************************)
RECURSIVE StripStars(_)
StripStars(p) ==
    IF Len(p) > 0 /\ Head(p) = "*" THEN StripStars(Tail(p)) ELSE p

RECURSIVE ChunkEnd(_, _)
\* the number of characters of p before its first unescaped '*', scanning from i
ChunkEnd(p, i) ==
    IF i > Len(p) THEN Len(p)
    ELSE IF p[i] = "\\" THEN ChunkEnd(p, IF i + 1 <= Len(p) THEN i + 2 ELSE i + 1)
    ELSE IF p[i] = "*" THEN i - 1
    ELSE ChunkEnd(p, i + 1)

scanChunk(pattern) ==
    LET p == StripStars(pattern)
        n == ChunkEnd(p, 1)
    IN  [star  |-> Len(pattern) > 0 /\ Head(pattern) = "*",
         chunk |-> SubSeq(p, 1, n),
         rest  |-> SubSeq(p, n + 1, Len(p))]

RECURSIVE matchChunkFrom(_, _, _)
matchChunkFrom(chunk, s, failed) ==
    IF chunk = <<>>
    THEN [rest |-> IF failed THEN <<>> ELSE s, ok |-> ~failed, err |-> FALSE]
    ELSE LET f == failed \/ s = <<>>
             lit == IF Head(chunk) = "\\" THEN Tail(chunk) ELSE chunk
         IN  IF lit = <<>>
             THEN [rest |-> <<>>, ok |-> FALSE, err |-> TRUE]
             ELSE IF f
                  THEN matchChunkFrom(Tail(lit), s, TRUE)
                  ELSE matchChunkFrom(Tail(lit), Tail(s), Head(lit) # Head(s))

matchChunk(chunk, s) == matchChunkFrom(chunk, s, FALSE)

RECURSIVE RestValid(_)
\* the syntax check of the remainder of the pattern once the match has failed
RestValid(pattern) ==
    IF pattern = <<>> THEN TRUE
    ELSE LET sc == scanChunk(pattern)
         IN  ~matchChunk(sc.chunk, <<>>).err /\ RestValid(sc.rest)

RECURSIVE StarSkip(_, _, _, _)
\* the loop "for i := 0; i < len(name); i++" of Match: the first i at which
\* the chunk matches name[i+1:], or the error met on the way
StarSkip(chunk, rest, name, i) ==
    IF i > Len(name) THEN [found |-> FALSE, err |-> FALSE, name |-> <<>>]
    ELSE LET m == matchChunk(chunk, SubSeq(name, i + 1, Len(name)))
         IN  IF m.ok /\ ~(rest = <<>> /\ Len(m.rest) > 0)
             THEN [found |-> TRUE, err |-> FALSE, name |-> m.rest]
             ELSE IF ~m.ok /\ m.err
                  THEN [found |-> FALSE, err |-> TRUE, name |-> <<>>]
                  ELSE StarSkip(chunk, rest, name, i + 1)

RECURSIVE Match(_, _)
Match(pattern, name) ==
    IF pattern = <<>> THEN [matched |-> name = <<>>, err |-> FALSE]
    ELSE LET sc == scanChunk(pattern)
             m  == matchChunk(sc.chunk, name)
         IN  IF sc.star /\ sc.chunk = <<>>
             THEN [matched |-> TRUE, err |-> FALSE]
             ELSE IF m.ok /\ (Len(m.rest) = 0 \/ Len(sc.rest) > 0)
                  THEN Match(sc.rest, m.rest)
                  ELSE IF m.err THEN [matched |-> FALSE, err |-> TRUE]
                  ELSE LET sk == IF sc.star
                                 THEN StarSkip(sc.chunk, sc.rest, name, 1)
                                 ELSE [found |-> FALSE, err |-> FALSE, name |-> <<>>]
                       IN  IF sk.found THEN Match(sc.rest, sk.name)
                           ELSE IF sk.err THEN [matched |-> FALSE, err |-> TRUE]
                           ELSE [matched |-> FALSE, err |-> ~RestValid(sc.rest)]

(***************************************************************************)
(* Flags and middlewares (emitter.go:17-54).  A flag mask is the set of    *)
(* the flags it holds; FlagReset is the empty mask.                        *)
(***************************************************************************)
Flags == {"Once", "Void", "Skip", "Close", "Sync"}
FlagReset == {}

\* a Reset that would leave the flags as they are
MiddlewareKeep(name, flags) ==
    IF name = "Reset" THEN flags ELSE flags \cup {name}

\* one middleware applied to the flags of an event
Middleware(name, flags) ==
    IF name = "Reset" THEN FlagReset ELSE flags \cup {name}

RECURSIVE applyMiddlewares(_, _)
applyMiddlewares(flags, fns) ==
    IF fns = <<>> THEN flags
    ELSE applyMiddlewares(Middleware(Head(fns), flags), Tail(fns))


(***************************************************************************)
(* The state.                                                              *)
(*   mu           the holder of emitter.mu: <<"free">>, <<"emit", p>> or   *)
(*                <<"task", p, k>>                                         *)
(*   capacity     emitter.capacity                                         *)
(*   listeners    emitter.listeners: stored topic -> sequence of listeners *)
(*                (a listener is named by its channel, a number)           *)
(*   middlewares  emitter.middlewares: pattern -> sequence of middlewares  *)
(*   lmws         listener.middlewares of every listener created so far    *)
(*   chans        listener.ch of every listener created so far: buffer,    *)
(*                closed, number of close calls, a receiver is waiting     *)
(*   pubs         the calls of Emit: position of the call, its locals, its *)
(*                done channel, its delivery goroutines, its coordinators  *)
(*   calls        the number of Use/Listeners/Topics calls made            *)
(*   ret          the last Use/Off/Listeners/Topics call and what it       *)
(*                returned                                                 *)
(***************************************************************************)
VARIABLES mu, capacity, listeners, middlewares, lmws, chans, pubs, calls, ret,
          group

vars == <<mu, capacity, listeners, middlewares, lmws, chans, pubs, calls, ret, group>>

Free == <<"free">>
Pubs == 1..MaxPubs
Chans == 1..Len(chans)

OnTopics == {TopicA, TopicStar}
EmitTopics == {TopicA, TopicB, TopicStar, TopicBad}

RECURSIVE SeqToSet(_)
SeqToSet(s) == IF s = <<>> THEN {} ELSE {Head(s)} \cup SeqToSet(Tail(s))

RECURSIVE Filter(_, _)
\* the elements of s that are not in the set drop, in their order
Filter(s, drop) ==
    IF s = <<>> THEN <<>>
    ELSE IF Head(s) \in drop THEN Filter(Tail(s), drop)
    ELSE <<Head(s)>> \o Filter(Tail(s), drop)

RECURSIVE Concat(_)
Concat(ss) == IF ss = <<>> THEN <<>> ELSE Head(ss) \o Concat(Tail(ss))

\* the orders in which a range over a map may visit the keys in S
Orders(S) ==
    {o \in [1..Cardinality(S) -> S] : \A i, j \in 1..Cardinality(S) : i # j => o[i] # o[j]}

\* make(chan error, 1) and the locals of a call of Emit that has not started.
\* log, cancelled, callerPanic and base record what happened: the outcome
\* of every delivery, what the caller did, and the flags of the event of
\* each matched topic visited, after the topic-wide middlewares.
NoPub ==
    [pc |-> "idle", topic |-> <<>>, rest |-> {}, cur |-> <<>>, i |-> 0,
     flags |-> {}, wg |-> 0, haveToWait |-> FALSE, defers |-> <<>>,
     done |-> [buf |-> <<>>, closed |-> FALSE], coords |-> 0, tasks |-> <<>>,
     log |-> [l \in 1..MaxListeners |-> <<>>], cancelled |-> FALSE,
     callerPanic |-> FALSE, base |-> <<>>]

NoRet == [op |-> "none", topic |-> <<>>, args |-> <<>>, val |-> <<>>, err |-> FALSE]

\* The buses whose subscriptions a group merges (e, e2, e3 of TestGroupBasic),
\* each with one subscription, the source queue of the same number.
Buses == 1..3

\* &Group{Cap: GroupCap}: no forwarder, no output listener.  srcs are the
\* subscription queues handed to the group, outs the output queues made by
\* On, sent the number of publications made on the buses so far.
NoGroup ==
    [srcs |-> [b \in Buses |-> [closed |-> FALSE]],
     fwd |-> [b \in Buses |-> [st |-> "none", ev |-> 0]],
     listeners |-> <<>>,
     outs |-> <<>>,
     sent |-> 0,
     last |-> [op |-> "none", args |-> <<>>, val |-> <<>>]]

\* New(capacity), emitter.go:58-64
Init ==
    /\ mu = Free
    /\ capacity \in 0..MaxCap
    /\ listeners = <<>>
    /\ middlewares = <<>>
    /\ lmws = <<>>
    /\ chans = <<>>
    /\ pubs = [p \in Pubs |-> NoPub]
    /\ calls = 0
    /\ ret = NoRet
    /\ group = NoGroup

(***************************************************************************)
(* emitter.matched, emitter.go:336-351.  The keys are visited in the order *)
(* of the map; the first error ends the loop, so an error is returned when *)
(* some key gives one.                                                     *)
(***************************************************************************)
\* a selection that tries the input topic as the pattern only
matchedOneWay(topic) ==
    IF \E k \in DOMAIN listeners : Match(topic, k).err
    THEN [keys |-> {}, err |-> TRUE]
    ELSE [keys |-> {k \in DOMAIN listeners : Match(topic, k).matched},
          err |-> FALSE]

matched(topic) ==
    IF \E k \in DOMAIN listeners : Match(topic, k).err
    THEN [keys |-> {}, err |-> TRUE]
    ELSE [keys |-> {k \in DOMAIN listeners :
                        Match(topic, k).matched \/ Match(k, topic).matched},
          err |-> FALSE]

(***************************************************************************)
(* emitter.getMiddlewares, emitter.go:318-328: the sequences the range     *)
(* over the map of middlewares can build, one per order of the patterns.   *)
(***************************************************************************)
getMiddlewares(topic) ==
    LET pats == {pt \in DOMAIN middlewares :
                    Match(pt, topic).matched \/ Match(topic, pt).matched}
    IN  {Concat([i \in 1..Cardinality(pats) |-> middlewares[o[i]]]) : o \in Orders(pats)}

(***************************************************************************)
(* On, emitter.go:127-137 with newListener, emitter.go:96-101.             *)
(***************************************************************************)
newListener(mws) ==
    [ch |-> [buf |-> <<>>, closed |-> FALSE, closes |-> 0, waiting |-> FALSE],
     middlewares |-> mws]

On(topic, mws) ==
    /\ mu = Free
    /\ Len(chans) < MaxListeners
    /\ LET l == Len(chans) + 1
       IN  /\ chans' = Append(chans, newListener(mws).ch)
           /\ lmws' = Append(lmws, newListener(mws).middlewares)
           /\ listeners' =
                [k \in DOMAIN listeners \cup {topic} |->
                    IF k = topic
                    THEN IF topic \in DOMAIN listeners
                         THEN Append(listeners[topic], l)
                         ELSE <<l>>
                    ELSE listeners[k]]
    /\ UNCHANGED <<mu, capacity, group, middlewares, pubs, calls, ret>>

(***************************************************************************)
(* Use, emitter.go:110-123.                                                *)
(***************************************************************************)
\* a Use that would add the sequence to the entry of the pattern, and keep
\* the entry when the sequence is empty
UseAppend(pattern, mws) ==
    /\ calls < MaxCalls
    /\ calls' = calls + 1
    /\ IF Match(pattern, <<"-", "-", "-">>).err
       THEN /\ ret' = [op |-> "Use", topic |-> pattern, args |-> mws, val |-> <<>>, err |-> TRUE]
            /\ UNCHANGED middlewares
       ELSE /\ mu = Free
            /\ ret' = [op |-> "Use", topic |-> pattern, args |-> mws, val |-> <<>>, err |-> FALSE]
            /\ middlewares' =
                 [k \in DOMAIN middlewares \cup {pattern} |->
                     IF k # pattern THEN middlewares[k]
                     ELSE IF k \in DOMAIN middlewares THEN middlewares[k] \o mws
                     ELSE mws]
    /\ UNCHANGED <<mu, capacity, group, listeners, lmws, chans, pubs>>

Use(pattern, mws) ==
    /\ calls < MaxCalls
    /\ calls' = calls + 1
    /\ IF Match(pattern, <<"-", "-", "-">>).err
       THEN /\ ret' = [op |-> "Use", topic |-> pattern, args |-> mws, val |-> <<>>, err |-> TRUE]
            /\ UNCHANGED middlewares
       ELSE /\ mu = Free
            /\ ret' = [op |-> "Use", topic |-> pattern, args |-> mws, val |-> <<>>, err |-> FALSE]
            /\ middlewares' =
                 IF Len(mws) = 0
                 THEN [k \in DOMAIN middlewares \ {pattern} |-> middlewares[k]]
                 ELSE [k \in DOMAIN middlewares \cup {pattern} |->
                          IF k = pattern THEN mws ELSE middlewares[k]]
    /\ UNCHANGED <<mu, capacity, group, listeners, lmws, chans, pubs>>

(***************************************************************************)
(* close(ch) of a listener channel: a waiting receiver is released.        *)
(***************************************************************************)
closeChan(c) ==
    [c EXCEPT !.closed = TRUE, !.closes = c.closes + 1, !.waiting = FALSE]

(***************************************************************************)
(* drop, emitter.go:353-355: the slice without its element i (dropNone: a  *)
(* drop that would leave the slice as it is).                              *)
(***************************************************************************)
dropNone(l, i) == l

drop(l, i) == SubSeq(l, 1, i - 1) \o SubSeq(l, i + 1, Len(l))

(***************************************************************************)
(* The loops of Off, emitter.go:152-167, over one stored topic: the        *)
(* listeners left and the channels closed, in the order of the close       *)
(* calls.  channels = <<>> is a call without channels.                     *)
(***************************************************************************)
RECURSIVE offScan(_, _, _, _)
\* for i := i; i >= 1; i-- : close and drop listener i when all or it is curr
offScan(ls, i, all, curr) ==
    IF i = 0 THEN [ls |-> ls, closed |-> <<>>]
    ELSE IF all \/ ls[i] = curr
         THEN LET r == offScan(drop(ls, i), i - 1, all, curr)
              IN  [ls |-> r.ls, closed |-> <<ls[i]>> \o r.closed]
         ELSE offScan(ls, i - 1, all, curr)

RECURSIVE offChannels(_, _)
\* for chi := range channels
offChannels(ls, channels) ==
    IF channels = <<>> THEN [ls |-> ls, closed |-> <<>>]
    ELSE LET r == offScan(ls, Len(ls), FALSE, Head(channels))
             q == offChannels(r.ls, Tail(channels))
         IN  [ls |-> q.ls, closed |-> r.closed \o q.closed]

\* an Off that would take every listener of the topic, handles given or not
offTopicAll(ls, channels) == offScan(ls, Len(ls), TRUE, 0)

offTopic(ls, channels) ==
    IF Len(channels) = 0
    THEN offScan(ls, Len(ls), TRUE, 0)
    ELSE offChannels(ls, channels)

\* emitter.go:169-173: the registry after the loop over the matched topics
\* a removal that leaves the key of an emptied topic in the registry
OffListenersKeepKey(match, channels) ==
    [k \in DOMAIN listeners |->
        IF k \in match THEN offTopic(listeners[k], channels).ls ELSE listeners[k]]

OffListeners(match, channels) ==
    LET kept == [k \in DOMAIN listeners |->
                    IF k \in match THEN offTopic(listeners[k], channels).ls
                    ELSE listeners[k]]
    IN  [k \in {k \in DOMAIN listeners : ~(k \in match /\ Len(kept[k]) = 0)} |-> kept[k]]

\* the number of close calls Off makes on channel l
OffCloses(match, channels, l) ==
    Cardinality({kj \in UNION {{<<k, j>> : j \in 1..Len(offTopic(listeners[k], channels).closed)} : k \in match} :
                    offTopic(listeners[kj[1]], channels).closed[kj[2]] = l})

OffChans(match, channels) ==
    [l \in Chans |->
        IF OffCloses(match, channels, l) = 0 THEN chans[l]
        ELSE [closeChan(chans[l]) EXCEPT !.closes = chans[l].closes + OffCloses(match, channels, l)]]

Off(topic, channels) ==
    /\ mu = Free
    /\ LET m == matched(topic)
       IN  IF m.err
           THEN /\ ret' = [op |-> "Off", topic |-> topic, args |-> channels, val |-> <<>>, err |-> TRUE]
                /\ UNCHANGED <<listeners, chans>>
           ELSE /\ ret' = [op |-> "Off", topic |-> topic, args |-> channels, val |-> <<>>, err |-> FALSE]
                /\ listeners' = OffListeners(m.keys, channels)
                /\ chans' = OffChans(m.keys, channels)
    /\ UNCHANGED <<mu, capacity, group, middlewares, lmws, pubs, calls>>


(***************************************************************************)
(* Listeners, emitter.go:181-198, and Topics, emitter.go:201-211.  The     *)
(* matched topics and the keys are visited in the order of the map.        *)
(***************************************************************************)
Listeners(topic) ==
    /\ mu = Free
    /\ calls < MaxCalls
    /\ calls' = calls + 1
    /\ LET m == matched(topic)
       IN  IF m.err
           THEN ret' = [op |-> "Listeners", topic |-> topic, args |-> <<>>, val |-> <<>>, err |-> TRUE]
           ELSE \E o \in Orders(m.keys) :
                   ret' = [op |-> "Listeners", topic |-> topic, args |-> <<>>,
                           val |-> Concat([i \in 1..Len(o) |-> listeners[o[i]]]),
                           err |-> FALSE]
    /\ UNCHANGED <<mu, capacity, group, listeners, middlewares, lmws, chans, pubs>>

Topics ==
    /\ mu = Free
    /\ calls < MaxCalls
    /\ calls' = calls + 1
    /\ \E o \in Orders(DOMAIN listeners) :
          ret' = [op |-> "Topics", topic |-> <<>>, args |-> <<>>, val |-> o, err |-> FALSE]
    /\ UNCHANGED <<mu, capacity, group, listeners, middlewares, lmws, chans, pubs>>

(***************************************************************************)
(* send, emitter.go:357-379: the cases of the select that can proceed.     *)
(* "canceled" is the receive from done, "sent" the send on the listener    *)
(* channel (a send on a closed channel proceeds, and panics), "default"    *)
(* the default case, taken when wait is false and no other case can        *)
(* proceed.  An empty set is a blocked select.                             *)
(***************************************************************************)
DoneReady(d) == d.buf # <<>> \/ d.closed

ChanReady(c) == c.closed \/ c.waiting \/ Len(c.buf) < capacity

send(d, c, wait) ==
    (IF DoneReady(d) THEN {"canceled"} ELSE {})
        \cup (IF ChanReady(c) THEN {"sent"} ELSE {})
        \cup (IF ~wait /\ ~DoneReady(d) /\ ~ChanReady(c) THEN {"default"} ELSE {})

\* a send that would put the event into the queue twice
chanSendTwice(c, e) == [c EXCEPT !.buf = c.buf \o <<e, e>>, !.waiting = FALSE]

\* the listener channel after the case "ch <- e" was taken on an open channel
chanSend(c, e) ==
    IF c.waiting THEN [c EXCEPT !.waiting = FALSE]
    ELSE [c EXCEPT !.buf = Append(c.buf, e)]

\* the done channel after the case "<-done" was taken
doneRecv(d) == [d EXCEPT !.buf = IF d.buf = <<>> THEN <<>> ELSE Tail(d.buf)]

(***************************************************************************)
(* pushEvent, emitter.go:290-316: the flags it unwinds, the value of wait  *)
(* it passes to send, and the value of remove for each case of the select. *)
(***************************************************************************)
pushWait(flags) == ~("Skip" \in flags \/ "Close" \in flags)

\* a pushEvent that would also ask for the removal of a canceled Once delivery
pushRemoveCanceled(flags, case) ==
    IF case = "default" THEN "Close" \in flags ELSE "Once" \in flags

pushRemove(flags, case) ==
    LET sent == case = "sent"
        canceled == case = "canceled"
    IN  IF ~sent /\ ~canceled THEN "Close" \in flags
        ELSE IF ~canceled THEN "Once" \in flags
        ELSE FALSE

\* the outcome of a delivery, as the log of the publication records it
Outcome(flags, case) ==
    IF case = "sent" THEN "sent"
    ELSE IF case = "canceled" THEN "canceled"
    ELSE IF "Close" \in flags THEN "dropped" ELSE "skipped"

\* an event that would carry the topic of the call in place of the stored one
EventOfCall(p, topic, flags) ==
    [Topic |-> pubs[p].topic, OriginalTopic |-> pubs[p].topic, Args |-> p, Flags |-> flags]

Event(p, topic, flags) ==
    [Topic |-> topic, OriginalTopic |-> pubs[p].topic, Args |-> p, Flags |-> flags]

(***************************************************************************)
(* Emit, emitter.go:215-288.  EmitStart is lines 216-228.                  *)
(***************************************************************************)
EmitStart(p, topic) ==
    /\ mu = Free
    /\ pubs[p].pc = "idle"
    /\ \A q \in Pubs : q < p => pubs[q].pc # "idle"
    /\ LET m == matched(topic)
       IN  IF m.err
           THEN /\ pubs' = [pubs EXCEPT ![p].pc = "returned", ![p].topic = topic,
                                        ![p].done = [buf |-> <<"err">>, closed |-> TRUE]]
                /\ UNCHANGED mu
           ELSE /\ pubs' = [pubs EXCEPT ![p].pc = "topics", ![p].topic = topic,
                                        ![p].rest = m.keys]
                /\ mu' = <<"emit", p>>
    /\ UNCHANGED <<capacity, group, listeners, middlewares, lmws, chans, calls, ret>>

\* emitter.go:229-242: the next matched topic, its event and the topic-wide
\* middlewares; a Void event skips the topic
EmitTopic(p) ==
    /\ pubs[p].pc = "topics"
    /\ \E t \in pubs[p].rest : \E fns \in getMiddlewares(t) :
          LET flags == applyMiddlewares(FlagReset, fns)
          IN  IF "Void" \in flags
              THEN pubs' = [pubs EXCEPT ![p].rest = pubs[p].rest \ {t},
                                        ![p].base = (t :> flags) @@ pubs[p].base]
              ELSE pubs' = [pubs EXCEPT ![p].cur = t, ![p].flags = flags,
                                        ![p].base = (t :> flags) @@ pubs[p].base,
                                        ![p].i = Len(listeners[t]),
                                        ![p].pc = "listeners"]
    /\ UNCHANGED <<mu, capacity, group, listeners, middlewares, lmws, chans, calls, ret>>

\* the record of a delivery in the log of publication p
Logged(p, l, res, e) ==
    [pubs[p].log EXCEPT ![l] = Append(pubs[p].log[l], [res |-> res, ev |-> e])]

\* without the copy the listener's middlewares would write to the topic's event
topicEventShared(event, evn) == evn

\* emitter.go:247: "evn := *(&event)": the listener's middlewares run on a
\* copy, so the event of the topic keeps its flags for the next listener
topicEvent(event, evn) == event

\* emitter.go:245-272: one iteration of the loop over the listeners
EmitListener(p) ==
    /\ pubs[p].pc = "listeners"
    /\ pubs[p].i >= 1
    /\ LET l == listeners[pubs[p].cur][pubs[p].i]
           flags == applyMiddlewares(pubs[p].flags, lmws[l])
           evn == Event(p, pubs[p].cur, flags)
       IN  IF "Void" \in flags
           THEN /\ pubs' = [pubs EXCEPT ![p].i = pubs[p].i - 1,
                                        ![p].flags = topicEvent(pubs[p].flags, flags),
                                        ![p].log = Logged(p, l, "void", evn)]
                /\ UNCHANGED chans
           ELSE IF "Sync" \in flags
           THEN \E case \in send(pubs[p].done, chans[l], pushWait(flags)) :
                   IF case = "sent" /\ chans[l].closed
                   THEN /\ pubs' = [pubs EXCEPT ![p].pc = "panic"]
                        /\ UNCHANGED chans
                   ELSE /\ pubs' = [pubs EXCEPT
                              ![p].i = pubs[p].i - 1,
                              ![p].flags = topicEvent(pubs[p].flags, flags),
                              ![p].log = Logged(p, l, Outcome(flags, case), evn),
                              ![p].done = IF case = "canceled"
                                          THEN doneRecv(pubs[p].done) ELSE pubs[p].done,
                              ![p].defers = IF pushRemove(flags, case)
                                            THEN Append(pubs[p].defers,
                                                        [topic |-> pubs[p].cur, ch |-> l])
                                            ELSE pubs[p].defers]
                        /\ chans' = IF case = "sent"
                                    THEN [chans EXCEPT ![l] = chanSend(chans[l], evn)]
                                    ELSE chans
           ELSE /\ pubs' = [pubs EXCEPT
                      ![p].i = pubs[p].i - 1,
                      ![p].flags = topicEvent(pubs[p].flags, flags),
                      ![p].wg = pubs[p].wg + 1,
                      ![p].haveToWait = TRUE,
                      ![p].tasks = Append(pubs[p].tasks,
                                          [l |-> l, ev |-> evn, pc |-> "start"])]
                /\ UNCHANGED chans
    /\ UNCHANGED <<mu, capacity, group, listeners, middlewares, lmws, calls, ret>>

\* emitter.go:274-282: after the listeners of one matched topic, start a
\* coordinator or close done; closing a closed channel panics
EmitTopicEnd(p) ==
    /\ pubs[p].pc = "listeners"
    /\ pubs[p].i = 0
    /\ pubs' = [pubs EXCEPT
          ![p].rest = pubs[p].rest \ {pubs[p].cur},
          ![p].coords = IF pubs[p].haveToWait THEN pubs[p].coords + 1 ELSE pubs[p].coords,
          ![p].done = IF pubs[p].haveToWait THEN pubs[p].done
                      ELSE [pubs[p].done EXCEPT !.closed = TRUE],
          ![p].pc = IF ~pubs[p].haveToWait /\ pubs[p].done.closed
                    THEN "panic" ELSE "topics"]
    /\ UNCHANGED <<mu, capacity, group, listeners, middlewares, lmws, chans, calls, ret>>

\* emitter.go:286-287: unlock; the deferred calls of Off run before the return
EmitUnlock(p) ==
    /\ pubs[p].pc = "topics"
    /\ pubs[p].rest = {}
    /\ mu' = Free
    /\ pubs' = [pubs EXCEPT ![p].pc = IF pubs[p].defers = <<>> THEN "returned" ELSE "defers"]
    /\ UNCHANGED <<capacity, group, listeners, middlewares, lmws, chans, calls, ret>>

\* emitter.go:257: a deferred e.Off(event.Topic, lstnr.ch), last deferred first
EmitDeferredOff(p) ==
    /\ pubs[p].pc = "defers"
    /\ mu = Free
    /\ LET d == pubs[p].defers[Len(pubs[p].defers)]
           m == matched(d.topic)
       IN  /\ listeners' = IF m.err THEN listeners ELSE OffListeners(m.keys, <<d.ch>>)
           /\ chans' = IF m.err THEN chans ELSE OffChans(m.keys, <<d.ch>>)
           /\ pubs' = [pubs EXCEPT
                 ![p].defers = SubSeq(pubs[p].defers, 1, Len(pubs[p].defers) - 1),
                 ![p].pc = IF Len(pubs[p].defers) = 1 THEN "returned" ELSE "defers"]
    /\ UNCHANGED <<mu, capacity, group, middlewares, lmws, calls, ret>>


(***************************************************************************)
(* The delivery goroutine, emitter.go:262-270.  TaskLock is line 263; the  *)
(* goroutine then holds the mutex until pushEvent has returned.            *)
(***************************************************************************)
TaskLock(p, k) ==
    /\ pubs[p].tasks[k].pc = "start"
    /\ mu = Free
    /\ mu' = <<"task", p, k>>
    /\ pubs' = [pubs EXCEPT ![p].tasks[k].pc = "push"]
    /\ UNCHANGED <<capacity, group, listeners, middlewares, lmws, chans, calls, ret>>

\* emitter.go:264-269: pushEvent, wg.Done and Unlock; the deferred Off is left
TaskPush(p, k) ==
    /\ pubs[p].tasks[k].pc = "push"
    /\ LET t == pubs[p].tasks[k]
           flags == t.ev.Flags
       IN  \E case \in send(pubs[p].done, chans[t.l], pushWait(flags)) :
              IF case = "sent" /\ chans[t.l].closed
              THEN /\ pubs' = [pubs EXCEPT ![p].tasks[k].pc = "panic"]
                   /\ UNCHANGED <<mu, chans>>
              ELSE /\ pubs' = [pubs EXCEPT
                         ![p].tasks[k].pc = IF pushRemove(flags, case) THEN "off" ELSE "fin",
                         ![p].log = Logged(p, t.l, Outcome(flags, case), t.ev),
                         ![p].done = IF case = "canceled"
                                     THEN doneRecv(pubs[p].done) ELSE pubs[p].done,
                         ![p].wg = pubs[p].wg - 1]
                   /\ chans' = IF case = "sent"
                               THEN [chans EXCEPT ![t.l] = chanSend(chans[t.l], t.ev)]
                               ELSE chans
                   /\ mu' = Free
    /\ UNCHANGED <<capacity, group, listeners, middlewares, lmws, calls, ret>>

\* emitter.go:266: the deferred e.Off(event.Topic, lstnr.ch) of the goroutine
TaskOff(p, k) ==
    /\ pubs[p].tasks[k].pc = "off"
    /\ mu = Free
    /\ LET t == pubs[p].tasks[k]
           m == matched(t.ev.Topic)
       IN  /\ listeners' = IF m.err THEN listeners ELSE OffListeners(m.keys, <<t.l>>)
           /\ chans' = IF m.err THEN chans ELSE OffChans(m.keys, <<t.l>>)
    /\ pubs' = [pubs EXCEPT ![p].tasks[k].pc = "fin"]
    /\ UNCHANGED <<mu, capacity, group, middlewares, lmws, calls, ret>>

(***************************************************************************)
(* The coordinator goroutine, emitter.go:275-279: wg.Wait, then close(done)*)
(* under a recover, so that closing a closed done does nothing.            *)
(***************************************************************************)
Coordinator(p) ==
    /\ pubs[p].coords > 0
    /\ pubs[p].wg = 0
    /\ pubs' = [pubs EXCEPT ![p].coords = pubs[p].coords - 1,
                            ![p].done.closed = TRUE]
    /\ UNCHANGED <<mu, capacity, group, listeners, middlewares, lmws, chans, calls, ret>>

(***************************************************************************)
(* The consumer of a listener channel.  Receive takes the head of the      *)
(* buffer; ReceiveWait blocks on an empty open channel, and a later send   *)
(* hands its event over (only a channel without buffer needs it: a send    *)
(* on a buffered channel that is not full proceeds anyway).                *)
(***************************************************************************)
Receive(l) ==
    /\ chans[l].buf # <<>>
    /\ chans' = [chans EXCEPT ![l].buf = Tail(chans[l].buf)]
    /\ UNCHANGED <<mu, capacity, group, listeners, middlewares, lmws, pubs, calls, ret>>

ReceiveWait(l) ==
    /\ capacity = 0
    /\ ~chans[l].closed
    /\ ~chans[l].waiting
    /\ chans' = [chans EXCEPT ![l].waiting = TRUE]
    /\ UNCHANGED <<mu, capacity, group, listeners, middlewares, lmws, pubs, calls, ret>>

(***************************************************************************)
(* The caller of Emit, once it holds done: it cancels by sending a value   *)
(* into done or by closing it (README, Cancellation; TestCancellation).    *)
(* Closing a closed channel, or sending on one, panics in the caller.      *)
(***************************************************************************)
CancelSend(p) ==
    /\ pubs[p].pc = "returned"
    /\ ~pubs[p].cancelled
    /\ ~pubs[p].callerPanic
    /\ pubs[p].done.closed \/ pubs[p].done.buf = <<>>
    /\ pubs' = [pubs EXCEPT
          ![p].cancelled = TRUE,
          ![p].callerPanic = pubs[p].done.closed,
          ![p].done.buf = IF pubs[p].done.closed THEN pubs[p].done.buf ELSE <<"nil">>]
    /\ UNCHANGED <<mu, capacity, group, listeners, middlewares, lmws, chans, calls, ret>>

CancelClose(p) ==
    /\ pubs[p].pc = "returned"
    /\ ~pubs[p].cancelled
    /\ ~pubs[p].callerPanic
    /\ pubs' = [pubs EXCEPT
          ![p].cancelled = TRUE,
          ![p].callerPanic = pubs[p].done.closed,
          ![p].done.closed = TRUE]
    /\ UNCHANGED <<mu, capacity, group, listeners, middlewares, lmws, chans, calls, ret>>

(***************************************************************************)
(* The steps of a call of Emit and of the goroutines it starts.            *)
(***************************************************************************)
EmitSteps ==
    \/ \E p \in Pubs : EmitTopic(p)
    \/ \E p \in Pubs : EmitListener(p)
    \/ \E p \in Pubs : EmitTopicEnd(p)
    \/ \E p \in Pubs : EmitUnlock(p)
    \/ \E p \in Pubs : \E k \in 1..Len(pubs[p].tasks) : TaskLock(p, k)
    \/ \E p \in Pubs : \E k \in 1..Len(pubs[p].tasks) : TaskPush(p, k)
    \/ \E p \in Pubs : Coordinator(p)

RemovalSteps ==
    \/ \E p \in Pubs : EmitDeferredOff(p)
    \/ \E p \in Pubs : \E k \in 1..Len(pubs[p].tasks) : TaskOff(p, k)

ConsumerSteps ==
    \/ \E l \in Chans : Receive(l)
    \/ \E l \in Chans : ReceiveWait(l)

CancelSteps ==
    \/ \E p \in Pubs : CancelSend(p)
    \/ \E p \in Pubs : CancelClose(p)

(***************************************************************************)
(* Spec: fan-out.  Listeners on "a" and on "*", blocking, Sync or Void;    *)
(* Use("*", ...) with Void or Sync; concurrent publications on "a".        *)
(***************************************************************************)
Next ==
    \/ \E t \in OnTopics, c \in {<<>>, <<"Sync">>, <<"Void">>} : On(t, c)
    \/ \E c \in {<<"Void">>, <<"Sync">>} : Use(TopicStar, c)
    \/ \E p \in Pubs : EmitStart(p, TopicA)
    \/ EmitSteps
    \/ ConsumerSteps

Spec == Init /\ [][Next]_vars

(***************************************************************************)
(* SpecBack: back-pressure.  Listeners on "a" with Skip and Once or with   *)
(* Close; concurrent publications on "a"; the removals that Once and Close *)
(* defer; Off("a") and a caller that cancels by closing done.              *)
(***************************************************************************)
NextBack ==
    \/ \E c \in {<<"Skip", "Once">>, <<"Close">>} : On(TopicA, c)
    \/ \E p \in Pubs : EmitStart(p, TopicA)
    \/ EmitSteps
    \/ ConsumerSteps
    \/ \E p \in Pubs : \E k \in 1..Len(pubs[p].tasks) : TaskOff(p, k)
    \/ Off(TopicA, <<>>)
    \/ \E p \in Pubs : CancelClose(p)

SpecBack == Init /\ [][NextBack]_vars

(***************************************************************************)
(* SpecSkip: Skip listeners and Void listeners on "a" and on "*", and      *)
(* concurrent publications on "a".                                         *)
(***************************************************************************)
NextSkip ==
    \/ \E t \in OnTopics, c \in {<<"Skip">>, <<"Void">>} : On(t, c)
    \/ \E p \in Pubs : EmitStart(p, TopicA)
    \/ EmitSteps
    \/ ConsumerSteps

SpecSkip == Init /\ [][NextSkip]_vars

(***************************************************************************)
(* SpecMatch: selection of the stored topics.  Blocking listeners on "a"   *)
(* and on "*"; one Emit, and Off and Listeners, with the topics "a", "b",  *)
(* "*" and the malformed pattern "\".                                      *)
(***************************************************************************)
NextMatch ==
    \/ \E t \in OnTopics : On(t, <<>>)
    \/ \E t \in EmitTopics : EmitStart(1, t)
    \/ \E t \in EmitTopics : Off(t, <<>>)
    \/ \E t \in EmitTopics : Listeners(t)
    \/ EmitSteps
    \/ ConsumerSteps

SpecMatch == Init /\ [][NextMatch]_vars

(***************************************************************************)
(* SpecReset: Reset in the chains.  Use("*", Void) and Use("*", Void,      *)
(* Reset); listeners on "a" with no middleware or with Reset; concurrent   *)
(* publications on "a".                                                    *)
(***************************************************************************)
NextReset ==
    \/ \E c \in {<<"Void">>, <<"Void", "Reset">>} : Use(TopicStar, c)
    \/ \E c \in {<<>>, <<"Reset">>, <<"Skip", "Reset", "Sync">>} : On(TopicA, c)
    \/ \E p \in Pubs : EmitStart(p, TopicA)
    \/ EmitSteps
    \/ ConsumerSteps

SpecReset == Init /\ [][NextReset]_vars

(***************************************************************************)
(* SpecCancel: cancellation.  Listeners on "a" with Once (blocking) or     *)
(* with Close; concurrent publications on "a" whose caller may send a      *)
(* value into done or close it; the removals that Once and Close defer.    *)
(***************************************************************************)
NextCancel ==
    \/ \E c \in {<<"Once">>, <<"Close">>} : On(TopicA, c)
    \/ \E p \in Pubs : EmitStart(p, TopicA)
    \/ EmitSteps
    \/ ConsumerSteps
    \/ \E p \in Pubs : \E k \in 1..Len(pubs[p].tasks) : TaskOff(p, k)
    \/ CancelSteps

SpecCancel == Init /\ [][NextCancel]_vars

(***************************************************************************)
(* SpecLife: the life of a listener queue.  Listeners on "a" with Skip and *)
(* Once or with Close; concurrent publications on "a" and the removals     *)
(* they defer; Off by topic, by pattern, by handle and with the handle     *)
(* repeated.                                                               *)
(***************************************************************************)
NextLife ==
    \/ \E c \in {<<"Skip", "Once">>, <<"Close">>} : On(TopicA, c)
    \/ \E p \in Pubs : EmitStart(p, TopicA)
    \/ EmitSteps
    \/ ConsumerSteps
    \/ \E p \in Pubs : \E k \in 1..Len(pubs[p].tasks) : TaskOff(p, k)
    \/ \E t \in {TopicA, TopicStar} : Off(t, <<>>)
    \/ \E l \in Chans : Off(TopicA, <<l>>)
    \/ \E l \in Chans : Off(TopicStar, <<l, l>>)

SpecLife == Init /\ [][NextLife]_vars

(***************************************************************************)
(* SpecEvent: the fields of an event.  Use("a", Close) and Use("*", Skip); *)
(* listeners on "a" and on "*" with no middleware or with Once; one Emit   *)
(* on "a" or on "*" and the removals it defers.                            *)
(***************************************************************************)
NextEvent ==
    \/ Use(TopicA, <<"Close">>)
    \/ Use(TopicStar, <<"Skip">>)
    \/ \E t \in OnTopics, c \in {<<>>, <<"Once">>} : On(t, c)
    \/ \E t \in {TopicA, TopicStar} : EmitStart(1, t)
    \/ EmitSteps
    \/ ConsumerSteps
    \/ \E p \in Pubs : \E k \in 1..Len(pubs[p].tasks) : TaskOff(p, k)

SpecEvent == Init /\ [][NextEvent]_vars

(***************************************************************************)
(* SpecUse: the map of middlewares.  Use with the patterns "a", "*" and    *)
(* the malformed "\", with no middleware, one or two; listeners on "a" and *)
(* one Emit on "a".                                                        *)
(***************************************************************************)
NextUse ==
    \/ \E t \in {TopicA, TopicStar, TopicBad} :
          \E c \in {<<>>, <<"Void">>, <<"Skip", "Once">>} : Use(t, c)
    \/ On(TopicA, <<>>)
    \/ EmitStart(1, TopicA)
    \/ EmitSteps
    \/ ConsumerSteps

SpecUse == Init /\ [][NextUse]_vars

(***************************************************************************)
(* SpecOff: removal by Off.  Blocking listeners on "a" and on "b"; Off by  *)
(* topic ("a", "b"), by pattern ("*"), by handle and with the handle       *)
(* repeated.                                                               *)
(***************************************************************************)
NextOff ==
    \/ \E t \in {TopicA, TopicB} : On(t, <<>>)
    \/ \E t \in {TopicA, TopicB, TopicStar} : Off(t, <<>>)
    \/ \E l \in Chans : Off(TopicA, <<l>>)
    \/ \E l \in Chans : Off(TopicStar, <<l, l>>)
    \/ \E t \in {TopicA, TopicStar} : Listeners(t)

SpecOff == Init /\ [][NextOff]_vars

(***************************************************************************)
(* SpecFlags: several topic-wide patterns that match one topic.  Use on    *)
(* "a" with Skip and on "*" with Reset or Once; blocking listeners on "a"  *)
(* and on "*"; publications on "a".                                        *)
(***************************************************************************)
NextFlags ==
    \/ Use(TopicA, <<"Skip">>)
    \/ \E c \in {<<"Reset">>, <<"Once">>} : Use(TopicStar, c)
    \/ \E t \in OnTopics : On(t, <<>>)
    \/ \E p \in Pubs : EmitStart(p, TopicA)
    \/ EmitSteps
    \/ ConsumerSteps

SpecFlags == Init /\ [][NextFlags]_vars

(***************************************************************************)
(* SpecKeys: the keys of the registry.  Listeners on "a" and on "b" that   *)
(* remove themselves (Once, Close), one publication on "*", removal by Off *)
(* by topic, by pattern and by handle, and calls of Topics and Listeners.  *)
(***************************************************************************)
NextKeys ==
    \/ \E t \in {TopicA, TopicB} : \E c \in {<<"Skip", "Once">>, <<"Close">>} : On(t, c)
    \/ EmitStart(1, TopicStar)
    \/ EmitSteps
    \/ ConsumerSteps
    \/ \E p \in Pubs : \E k \in 1..Len(pubs[p].tasks) : TaskOff(p, k)
    \/ \E t \in {TopicA, TopicStar} : Off(t, <<>>)
    \/ \E l \in Chans : Off(TopicStar, <<l>>)
    \/ Topics
    \/ \E t \in {TopicA, TopicStar} : Listeners(t)

SpecKeys == Init /\ [][NextKeys]_vars

(***************************************************************************)
(* The group multiplexer.  Its implementation is not among the sources;    *)
(* the operations follow the description of a group (one forwarder per     *)
(* added handle that reads an event and writes it to the output), and the  *)
(* calls and the listeners field of TestGroupBasic and                     *)
(* TestGroupFlushOnOff.  Handles are <<"src", b>> for the subscription of  *)
(* bus b and <<"out", q>> for the q-th output queue.                       *)
(***************************************************************************)
bus == <<mu, capacity, listeners, middlewares, lmws, chans, pubs, calls, ret>>

SrcHandles == {<<"src", b>> : b \in Buses}
OutHandles == {<<"out", q>> : q \in 1..Len(group.outs)}

\* the forwarders that are running: waiting for an event or holding one
Running(b) == group.fwd[b].st \in {"recv", "send"}

\* add(handles...): a forwarder for each handle
GroupAdd(handles) ==
    /\ handles # {}
    /\ \A h \in handles : h \in SrcHandles /\ ~Running(h[2])
    /\ group' = [group EXCEPT
          !.fwd = [b \in Buses |->
                     IF <<"src", b>> \in handles THEN [st |-> "recv", ev |-> 0]
                     ELSE group.fwd[b]],
          !.last = [op |-> "Add", args |-> handles, val |-> <<>>]]
    /\ UNCHANGED bus

\* on(): a new output queue of capacity Cap, listed among the listeners
GroupOn ==
    /\ Len(group.outs) < MaxOuts
    /\ LET q == Len(group.outs) + 1
       IN  group' = [group EXCEPT
              !.outs = Append(group.outs,
                              [buf |-> <<>>, closed |-> FALSE, closes |-> 0, got |-> <<>>]),
              !.listeners = Append(group.listeners, q),
              !.last = [op |-> "On", args |-> {}, val |-> <<"out", q>>]]
    /\ UNCHANGED bus

\* close(ch) of an output queue; closes counts the calls
closeOut(o) == [o EXCEPT !.closed = TRUE, !.closes = o.closes + 1]

\* an Off that closes the outputs and leaves them listed
offKeepAll(handles) == group.listeners

\* the listeners an Off with these handles leaves listed: none without
\* handles, otherwise those not named
offKeep(handles) ==
    IF handles = {} THEN <<>>
    ELSE Filter(group.listeners, {q \in SeqToSet(group.listeners) : <<"out", q>> \in handles})

\* off(handles...): without handles close every listed output and stop every
\* forwarder; with handles stop the forwarders of the named subscriptions
\* and close and unlist the named outputs
GroupOff(handles) ==
    /\ handles \subseteq SrcHandles \cup OutHandles
    /\ LET hit == {q \in SeqToSet(group.listeners) :
                      handles = {} \/ <<"out", q>> \in handles}
       IN  group' = [group EXCEPT
              !.outs = [q \in 1..Len(group.outs) |->
                          IF q \in hit THEN closeOut(group.outs[q]) ELSE group.outs[q]],
              !.listeners = offKeep(handles),
              !.fwd = [b \in Buses |->
                         IF Running(b) /\ (handles = {} \/ <<"src", b>> \in handles)
                         THEN [st |-> "stopped", ev |-> 0]
                         ELSE group.fwd[b]],
              !.last = [op |-> "Off", args |-> handles, val |-> <<>>]]
    /\ UNCHANGED bus

\* a flush that stops the forwarders and keeps the listeners
GroupFlushKeep ==
    /\ group' = [group EXCEPT
          !.fwd = [b \in Buses |-> [st |-> "none", ev |-> 0]],
          !.last = [op |-> "Flush", args |-> {}, val |-> <<>>]]
    /\ UNCHANGED bus

\* flush(): no subscription, no listener; the queues are left as they are
GroupFlush ==
    /\ group' = [group EXCEPT
          !.fwd = [b \in Buses |-> [st |-> "none", ev |-> 0]],
          !.listeners = <<>>,
          !.last = [op |-> "Flush", args |-> {}, val |-> <<>>]]
    /\ UNCHANGED bus

\* <-e.Emit("*", v) on bus b, whose middleware is Sync and whose one
\* subscription is unbuffered: the send of emitter.go:254-258 completes when
\* the forwarder of the subscription receives, and done is closed after it.
\* The publications carry 1, 2, ... in the order they are made.
BusEmit(b) ==
    /\ group.fwd[b].st = "recv"
    /\ ~group.srcs[b].closed
    /\ group' = [group EXCEPT
          !.fwd[b] = [st |-> "send", ev |-> group.sent + 1],
          !.sent = group.sent + 1,
          !.last = [op |-> "Emit", args |-> {b}, val |-> group.sent + 1]]
    /\ UNCHANGED bus

\* the forwarder of bus b writes the event it read to the output
Forward(b) ==
    /\ group.fwd[b].st = "send"
    /\ group.listeners # <<>>
    /\ \A q \in SeqToSet(group.listeners) : Len(group.outs[q].buf) < GroupCap
    /\ group' = [group EXCEPT
          !.outs = [q \in 1..Len(group.outs) |->
                      IF q \in SeqToSet(group.listeners)
                      THEN [group.outs[q] EXCEPT !.buf = Append(@, group.fwd[b].ev)]
                      ELSE group.outs[q]],
          !.fwd[b] = [st |-> "recv", ev |-> 0],
          !.last = [op |-> "Forward", args |-> {b}, val |-> <<>>]]
    /\ UNCHANGED bus

\* <-pipe: the consumer of output q takes the next event
GroupRecv(q) ==
    /\ q \in 1..Len(group.outs)
    /\ group.outs[q].buf # <<>>
    /\ group' = [group EXCEPT
          !.outs[q] = [@ EXCEPT !.buf = Tail(@), !.got = Append(@, Head(group.outs[q].buf))],
          !.last = [op |-> "Recv", args |-> {q}, val |-> Head(group.outs[q].buf)]]
    /\ UNCHANGED bus

(***************************************************************************)
(* SpecMerge: TestGroupBasic.  Add of the three subscriptions, On, then    *)
(* the publications of Script one after another, each awaited; the         *)
(* forwarders and the consumer run whenever they can.                      *)
(***************************************************************************)
\* the bus of each publication: 1 and 2 on e, 3 on e2, 4 and 5 on e3
Script == <<1, 1, 2, 3, 3>>

NextMerge ==
    \/ group.last.op = "none" /\ GroupAdd(SrcHandles)
    \/ group.last.op = "Add" /\ GroupOn
    \/ /\ group.listeners # <<>>
       /\ group.sent < Len(Script)
       /\ BusEmit(Script[group.sent + 1])
    \/ \E b \in Buses : Forward(b)
    \/ \E q \in 1..Len(group.outs) : GroupRecv(q)

SpecMerge == Init /\ [][NextMerge]_vars

(***************************************************************************)
(* SpecGroup: any sequence of Add, On, Off and Flush, with publications on *)
(* the buses, the forwarders and the consumers of the outputs.             *)
(***************************************************************************)
NextGroup ==
    \/ \E h \in SrcHandles : GroupAdd({h})
    \/ GroupOn
    \/ GroupOff({})
    \/ \E h \in SrcHandles \cup OutHandles : GroupOff({h})
    \/ GroupFlush
    \/ group.sent < MaxSends /\ \E b \in Buses : BusEmit(b)
    \/ \E b \in Buses : Forward(b)
    \/ \E q \in 1..Len(group.outs) : GroupRecv(q)

SpecGroup == Init /\ [][NextGroup]_vars

(***************************************************************************)
(* The notions the properties below speak of.                              *)
(***************************************************************************)
\* the channels of the listeners in the registry
Registered == UNION {SeqToSet(listeners[k]) : k \in DOMAIN listeners}

\* the stored topics that T matches in one direction or the other
BiMatch(T) ==
    {S \in DOMAIN listeners : Match(T, S).matched \/ Match(S, T).matched}

\* the deliveries of publication p to listener l that have not yet run pushEvent
PendingOn(p, l) ==
    {k \in 1..Len(pubs[p].tasks) :
        pubs[p].tasks[k].l = l /\ pubs[p].tasks[k].pc \in {"start", "push"}}

Pending(p) == \E l \in 1..MaxListeners : PendingOn(p, l) # {}

\* Emit has returned and nothing of the publication is left to run
Quiet(p) ==
    /\ pubs[p].pc = "returned"
    /\ \A k \in 1..Len(pubs[p].tasks) : pubs[p].tasks[k].pc = "fin"
    /\ pubs[p].coords = 0

\* publication p has recorded the outcome res for listener l
Has(p, l, res) ==
    \E i \in 1..Len(pubs[p].log[l]) : pubs[p].log[l][i].res = res

\* C1: for an Emit the caller does not cancel, done is closed only after every
\* delivery of the publication has reached its outcome: a caller that sees done
\* closed finds no delivery of that publication pending.
C1_DoneClosedAfterDeliveries ==
    \A p \in Pubs :
        (pubs[p].pc = "returned" /\ ~pubs[p].cancelled /\ pubs[p].done.closed)
            => ~Pending(p)

\* C2: fan-out.  Emit does not die on the way; when its loop ends every
\* listener of every matched topic that is not Void has exactly one delivery;
\* and when the publication is over each of them was sent its event, unless
\* its flags have Void, or have Skip or Close and the queue could not accept.
C2_FanOutExactlyOne ==
    \A p \in Pubs :
        /\ pubs[p].pc # "panic"
        /\ (pubs[p].pc = "topics" /\ pubs[p].rest = {}) =>
              \A k \in BiMatch(pubs[p].topic) :
                  /\ k \in DOMAIN pubs[p].base
                  /\ "Void" \notin pubs[p].base[k] =>
                        \A l \in SeqToSet(listeners[k]) :
                            Len(pubs[p].log[l]) + Cardinality(PendingOn(p, l)) = 1
        /\ (Quiet(p) /\ ~pubs[p].cancelled) =>
              \A l \in 1..MaxListeners : \A i \in 1..Len(pubs[p].log[l]) :
                  LET r == pubs[p].log[l][i]
                  IN  \/ r.res = "sent"
                      \/ r.res = "void" /\ "Void" \in r.ev.Flags
                      \/ r.res \in {"skipped", "dropped"}
                            /\ r.ev.Flags \cap {"Skip", "Close"} # {}

\* C4: an Emit with a valid topic gets its done closed, whatever it matches:
\* once Emit has returned and nothing of the publication is left to run, done
\* is closed (nothing would close it later).
C4_QuietEmitHasClosedDone ==
    \A p \in Pubs : Quiet(p) => pubs[p].done.closed

\* C5: Void suppresses.  When every matched topic is Void by the topic-wide
\* middlewares, or every listener is Void by its own, Emit returns with done
\* closed and nothing was sent or is to be sent.
C5_VoidEmitClosesDone ==
    \A p \in Pubs :
        LET topicVoid == /\ DOMAIN pubs[p].base # {}
                         /\ \A k \in DOMAIN pubs[p].base : "Void" \in pubs[p].base[k]
            listenerVoid == /\ \E l \in 1..MaxListeners : pubs[p].log[l] # <<>>
                            /\ \A l \in 1..MaxListeners :
                                  \A i \in 1..Len(pubs[p].log[l]) :
                                      pubs[p].log[l][i].res = "void"
                            /\ pubs[p].tasks = <<>>
        IN  (pubs[p].pc = "returned" /\ (topicVoid \/ listenerVoid)) =>
                /\ pubs[p].done.closed
                /\ pubs[p].tasks = <<>>
                /\ \A l \in 1..MaxListeners : ~Has(p, l, "sent")

\* C10: per-listener middleware isolation.  The flags of every delivery to a
\* listener are the flags of the topic's event after the topic-wide
\* middlewares, followed by that listener's own middlewares and by nothing
\* else; a delivery is suppressed as Void only when these flags have Void.
C10_ListenerFlagsIsolated ==
    \A p \in Pubs :
        /\ \A l \in 1..MaxListeners : \A i \in 1..Len(pubs[p].log[l]) :
              LET r == pubs[p].log[l][i]
                  own == applyMiddlewares(pubs[p].base[r.ev.Topic], lmws[l])
              IN  /\ r.ev.Flags = own
                  /\ (r.res = "void") = ("Void" \in own)
        /\ \A k \in 1..Len(pubs[p].tasks) :
              LET t == pubs[p].tasks[k]
              IN  /\ t.ev.Flags = applyMiddlewares(pubs[p].base[t.ev.Topic], lmws[t.l])
                  /\ "Void" \notin t.ev.Flags

\* a listener made Void by its own middleware was skipped and the listener
\* visited after it, on the same topic, was sent the event
C10_Witness ==
    \E p \in Pubs : \E k \in DOMAIN listeners :
        /\ Len(listeners[k]) = 2
        /\ Has(p, listeners[k][2], "void")
        /\ Has(p, listeners[k][1], "sent")
        /\ "Void" \notin pubs[p].base[k]
        /\ pubs[p].base[k] # {}

\* the events of publication p in the queue of listener l
Queued(p, l) == {i \in 1..Len(chans[l].buf) : chans[l].buf[i].Args = p}

\* C3: for every pair (listener, publication) there is at most one outcome,
\* occurred or still to come, and the queue of the listener holds at most one
\* event of the publication, under any interleaving of Emit, On and Off.
C3_AtMostOneOutcome ==
    \A p \in Pubs : \A l \in Chans :
        /\ Len(pubs[p].log[l]) + Cardinality(PendingOn(p, l)) <= 1
        /\ Cardinality(Queued(p, l)) <= 1

\* one listener has an outcome from each of two publications: the first was
\* sent, the second skipped, dropped or canceled
C3_Witness ==
    \E l \in Chans :
        /\ Has(1, l, "sent")
        /\ Has(2, l, "skipped") \/ Has(2, l, "dropped") \/ Has(2, l, "canceled")

\* publication p was sent to listener l with Once in the flags of the event
SentOnce(p, l) ==
    \E i \in 1..Len(pubs[p].log[l]) :
        pubs[p].log[l][i].res = "sent" /\ "Once" \in pubs[p].log[l][i].ev.Flags

\* C7: Once removes.  After a delivery with Once that was sent, once the
\* consumer has received the event or done of the publication is closed, a
\* call of Listeners (which takes the mutex) no longer finds the listener:
\* it is out of the registry and its queue is closed.
C7_OnceRemovedWhenObserved ==
    \A p \in Pubs : \A l \in Chans :
        (/\ SentOnce(p, l)
         /\ ~pubs[p].cancelled
         /\ mu = Free
         /\ Queued(p, l) = {} \/ pubs[p].done.closed)
            => l \notin Registered /\ chans[l].closed

\* C8: Close-on-block removes.  When a delivery with Close was dropped, then
\* by the time done of the publication is closed the listener is out of the
\* registry, its queue is closed and no topic is left with an empty sequence.
C8_CloseRemovedByDone ==
    \A p \in Pubs : \A l \in Chans :
        (/\ Has(p, l, "dropped")
         /\ ~pubs[p].cancelled
         /\ mu = Free
         /\ pubs[p].done.closed)
            => /\ l \notin Registered
               /\ chans[l].closed
               /\ \A k \in DOMAIN listeners : listeners[k] # <<>>

\* C9: Skip-on-block.  A delivery with Skip and without Close, of an Emit the
\* caller does not cancel, never leaves more events in the queue than its
\* capacity; when the queue cannot accept it enqueues nothing and leaves the
\* listener registered with its queue open; when the queue can accept, the
\* event is sent.
C9_SkipDropsOrDelivers ==
    [][\A p \in Pubs : \A l \in Chans :
          (/\ Len(pubs'[p].log[l]) > Len(pubs[p].log[l])
           /\ ~pubs[p].cancelled
           /\ ~chans[l].closed)
          => LET r == pubs'[p].log[l][Len(pubs'[p].log[l])]
             IN  ("Skip" \in r.ev.Flags /\ "Close" \notin r.ev.Flags /\ r.res # "void")
                 => /\ Len(chans'[l].buf) <= capacity
                    /\ IF ChanReady(chans[l])
                       THEN r.res = "sent"
                       ELSE /\ chans'[l] = chans[l]
                            /\ listeners' = listeners]_vars

\* the matcher accepts T as a pattern
ValidPattern(T) == \A n \in EmitTopics : ~Match(T, n).err

\* a step of Emit, of Listeners or of Off whose input topic is T
EmitCalled(p) == pubs[p].pc = "idle" /\ pubs'[p].pc # "idle"

ListenersCalled == calls' # calls /\ ret'.op = "Listeners"

OffCalled ==
    /\ ret'.op = "Off"
    /\ Len(chans') = Len(chans)
    /\ pubs' = pubs
    /\ ret' # ret \/ listeners' # listeners

\* the registry after every listener of the topics in sel was taken out
Without(sel) ==
    [k \in DOMAIN listeners \ sel |-> listeners[k]]

\* in this step Emit, Listeners and Off select the stored topics that match
\* their input topic in one direction or the other (for every input topic,
\* or for the input topics the matcher accepts)
SelectsBiMatch(validOnly) ==
    /\ \A p \in Pubs :
          (EmitCalled(p) /\ (validOnly => ValidPattern(pubs'[p].topic)))
              => pubs'[p].rest = BiMatch(pubs'[p].topic)
    /\ (ListenersCalled /\ (validOnly => ValidPattern(ret'.topic)))
          => SeqToSet(ret'.val) =
                UNION {SeqToSet(listeners[k]) : k \in BiMatch(ret'.topic)}
    /\ (OffCalled /\ (validOnly => ValidPattern(ret'.topic)))
          => listeners' = Without(BiMatch(ret'.topic))

LastReset(fns) ==
    LET R == {i \in 1..Len(fns) : fns[i] = "Reset"}
    IN  IF R = {} THEN 0 ELSE CHOOSE i \in R : \A j \in R : j <= i

AfterReset(F, fns) ==
    (IF LastReset(fns) = 0 THEN F ELSE {})
        \cup {fns[i] : i \in (LastReset(fns) + 1)..Len(fns)}

\* C11: Reset clears flags.  Every chain of the registry, applied in order,
\* leaves the flags set after its last Reset and none set before it; while
\* Emit visits a topic the flags of the topic's event are those of the
\* topic-wide chain after its last Reset, and the flags of each delivery are
\* those after the last Reset of the listener's chain; so a delivery that
\* Reset has freed of Void is made, and sent once the publication is over.
C11_ResetClearsFlags ==
    /\ \A k \in DOMAIN middlewares : \A F \in {{}, {"Void"}, Flags} :
          applyMiddlewares(F, middlewares[k]) = AfterReset(F, middlewares[k])
    /\ \A p \in Pubs :
          /\ pubs[p].pc = "listeners" =>
                \E fns \in getMiddlewares(pubs[p].cur) :
                    pubs[p].flags = AfterReset({}, fns)
          /\ \A l \in Chans : \A i \in 1..Len(pubs[p].log[l]) :
                LET r == pubs[p].log[l][i]
                IN  /\ r.ev.Flags = AfterReset(pubs[p].base[r.ev.Topic], lmws[l])
                    /\ (r.res = "void") = ("Void" \in r.ev.Flags)
                    /\ (Quiet(p) /\ "Void" \notin r.ev.Flags) => r.res = "sent"

\* Use("*", Void, Reset) is in force and a publication was sent to a listener
\* without middlewares
C11_Witness ==
    /\ calls = 1
    /\ TopicStar \in DOMAIN middlewares
    /\ middlewares[TopicStar] = <<"Void", "Reset">>
    /\ \E p \in Pubs : \E l \in Chans : lmws[l] = <<>> /\ Has(p, l, "sent")

\* the deliveries of publication p to listener l, made or started: each is
\* one run of the listener's own middlewares
Runs(p, l) ==
    Len(pubs[p].log[l])
        + Cardinality({k \in 1..Len(pubs[p].tasks) : pubs[p].tasks[k].l = l})

\* C12: callbacks-only usage.  When Emit has visited its matched topics (it
\* still holds the mutex, so the registry is the one it started with), the
\* own middlewares of every listener of a matched topic have run exactly
\* once, whatever the topic-wide middlewares are; and a listener whose chain
\* starts with Reset has a delivery that is not suppressed.
C12_ListenerMiddlewaresRun ==
    \A p \in Pubs :
        (pubs[p].pc = "topics" /\ pubs[p].rest = {}) =>
            \A k \in BiMatch(pubs[p].topic) : \A i \in 1..Len(listeners[k]) :
                LET l == listeners[k][i]
                IN  /\ Runs(p, l) = 1
                    /\ (lmws[l] # <<>> /\ Head(lmws[l]) = "Reset") => ~Has(p, l, "void")

\* in this step publication p records the outcome of its delivery to l
Delivers(p, l) == Len(pubs'[p].log[l]) > Len(pubs[p].log[l])

LastOutcome(p, l) == pubs'[p].log[l][Len(pubs'[p].log[l])]

C14_CancelReachesEveryDelivery ==
    \A p \in Pubs :
        (pubs[p].cancelled /\ ~pubs[p].callerPanic) =>
            \A k \in 1..Len(pubs[p].tasks) :
                pubs[p].tasks[k].pc = "push" => DoneReady(pubs[p].done)

\* the number of places listener l has in the registry
Places(l) ==
    Cardinality({ki \in UNION {{<<k, i>> : i \in 1..Len(listeners[k])} : k \in DOMAIN listeners} :
                    listeners[ki[1]][ki[2]] = l})

\* C15: listener queue lifecycle.  In every state each listener made by On
\* is in the registry once with its queue open, or is out of the registry
\* with its queue closed, and no queue was closed twice, whatever the order of
\* Off (by topic, by pattern, by handle, with a repeated handle) and of the
\* removals that deliveries with Once or Close defer.
C15_QueueOpenIffRegistered ==
    \A l \in Chans :
        /\ chans[l].closes <= 1
        /\ chans[l].closed = (chans[l].closes = 1)
        /\ Places(l) = (IF chans[l].closed THEN 0 ELSE 1)

\* a Once listener was sent an event, Off was called with its handle twice,
\* and the removal its delivery had deferred has run too: one close
C15_Witness ==
    \E l \in Chans : \E p \in Pubs :
        /\ SentOnce(p, l)
        /\ ret.op = "Off" /\ ret.args = <<l, l>>
        /\ \A k \in 1..Len(pubs[p].tasks) : pubs[p].tasks[k].pc = "fin"
        /\ chans[l].closes = 1

\* C16: the caller may close done at any moment after Emit has returned,
\* also after the engine has closed it: the close of the caller never panics,
\* and neither Emit nor a coordinator panics on done.
C16_CallerCloseNeverPanics ==
    \A p \in Pubs : ~pubs[p].callerPanic /\ pubs[p].pc # "panic"

\* the deliveries of publication p to listener l that Void did not suppress
Effective(p, l) ==
    {i \in 1..Len(pubs[p].log[l]) : pubs[p].log[l][i].res # "void"}

\* every delivery of publication p was made on the task of Emit with Sync,
\* there is at least one, and no matched topic is left to visit
SyncOnly(p) ==
    /\ pubs[p].tasks = <<>>
    /\ pubs[p].rest \ {pubs[p].cur} = {}
    /\ \E l \in Chans : Effective(p, l) # {}
    /\ \A l \in Chans : \A i \in Effective(p, l) :
          "Sync" \in pubs[p].log[l][i].ev.Flags

\* C17: Sync delivery.  When every delivery of a publication has Sync, Emit
\* does not die, and when it has returned done is closed and holds no value,
\* every delivery was sent (a blocking Sync send ends when the queue takes
\* the event), and a listener with Once is out of the registry with its
\* queue closed.
C17_SyncAllDoneAtReturn ==
    \A p \in Pubs :
        SyncOnly(p) =>
            /\ pubs[p].pc # "panic"
            /\ pubs[p].pc = "returned" =>
                  /\ pubs[p].done.closed
                  /\ pubs[p].done.buf = <<>>
                  /\ \A l \in Chans : \A i \in Effective(p, l) :
                        LET r == pubs[p].log[l][i]
                        IN  /\ r.res = "sent"
                            /\ "Once" \in r.ev.Flags
                                  => l \notin Registered /\ chans[l].closed

\* the flags an event of the stored topic t can have for listener l: the
\* topic-wide middlewares whose pattern matches t in one direction or the
\* other, then the listener's own
EffectiveFlags(t, l) ==
    {applyMiddlewares(applyMiddlewares(FlagReset, fns), lmws[l]) :
        fns \in getMiddlewares(t)}

\* C18: the fields of a delivered event.  The event Emit makes for a
\* listener has the stored topic the listener is registered under as Topic,
\* the topic of the call as OriginalTopic, the arguments of the call as Args
\* and the effective flags as Flags; the event a delivery enqueues is that
\* event, and every event in a queue was sent there by its publication.
C18_EventFields ==
    [][/\ \A p \in Pubs :
            (pubs[p].pc = "listeners" /\ pubs'[p].pc = "listeners"
                /\ pubs'[p].i < pubs[p].i) =>
                LET l == listeners[pubs[p].cur][pubs[p].i]
                    ev == IF Len(pubs'[p].tasks) > Len(pubs[p].tasks)
                          THEN pubs'[p].tasks[Len(pubs'[p].tasks)].ev
                          ELSE LastOutcome(p, l).ev
                IN  /\ ev.Topic \in DOMAIN listeners
                    /\ \E i \in 1..Len(listeners[ev.Topic]) : listeners[ev.Topic][i] = l
                    /\ ev.OriginalTopic = pubs[p].topic
                    /\ ev.Args = p
                    /\ ev.Flags \in EffectiveFlags(ev.Topic, l)
       /\ \A l \in Chans : \A i \in 1..Len(chans'[l].buf) :
            LET e == chans'[l].buf[i]
            IN  \E j \in 1..Len(pubs'[e.Args].log[l]) :
                    pubs'[e.Args].log[l][j] = [res |-> "sent", ev |-> e]]_vars

\* Use("a", Close) is in force, Emit("a") was sent to a listener of "*" with
\* Once, and the event is in its queue: Topic "*", OriginalTopic "a", flags
\* Close and Once
C18_Witness ==
    \E l \in Chans :
        /\ lmws[l] = <<"Once">>
        /\ chans[l].buf = <<[Topic |-> TopicStar, OriginalTopic |-> TopicA,
                             Args |-> 1, Flags |-> {"Close", "Once"}]>>

\* C19: Emit with a malformed topic, in any state of the registry, has
\* returned a done that holds the syntax error once and is closed, has made
\* and started no delivery and has left the registry as it was.
C19_InvalidEmitReturnsError ==
    [][\A p \in Pubs :
          (EmitCalled(p) /\ ~ValidPattern(pubs'[p].topic)) =>
              /\ pubs'[p].pc = "returned"
              /\ pubs'[p].done = [buf |-> <<"err">>, closed |-> TRUE]
              /\ pubs'[p].tasks = <<>>
              /\ \A l \in Chans : pubs'[p].log[l] = <<>>
              /\ listeners' = listeners /\ chans' = chans /\ mu' = Free]_vars

\* C20: Off and Listeners with a malformed pattern, in any state of the
\* registry (one without listeners too), return the syntax error, Listeners
\* with an empty sequence; no queue is closed, the registry is left as it
\* was and the mutex is free again.
C20_InvalidOffListenersError ==
    [][((OffCalled \/ ListenersCalled) /\ ~ValidPattern(ret'.topic)) =>
          /\ ret'.err
          /\ ret'.val = <<>>
          /\ listeners' = listeners /\ chans' = chans /\ mu' = Free]_vars

\* a step of Use; its pattern and its middlewares are in ret'
UseCalled == calls' # calls /\ ret'.op = "Use"

Targeted(T, handles) ==
    {l \in UNION {SeqToSet(listeners[k]) : k \in BiMatch(T)} :
        handles = <<>> \/ l \in SeqToSet(handles)}

\* the listeners the same call would be aimed at after this step
TargetedAfter(T, handles) ==
    {l \in UNION {SeqToSet(listeners'[k]) :
                    k \in {S \in DOMAIN listeners' :
                              Match(T, S).matched \/ Match(S, T).matched}} :
        handles = <<>> \/ l \in SeqToSet(handles)}

Written(q) == group.outs[q].got \o group.outs[q].buf

\* the publications 1, 2, ..., n in the order they were made
Published(n) == [i \in 1..n |-> i]

\* C23: in the merge scenario (three Sync buses, one subscription each,
\* output capacity at least the number of events, each publication awaited
\* before the next) the output carries the events in publication order,
\* and once every forwarder has written what it read, all of them, once each.
C23_MergeKeepsPublicationOrder ==
    \A q \in 1..Len(group.outs) :
        /\ Len(Written(q)) <= group.sent
        /\ Written(q) = Published(Len(Written(q)))
        /\ (\A b \in Buses : group.fwd[b].st # "send") => Written(q) = Published(group.sent)


\* the outputs an Off with these handles is aimed at, among the set outs
Aimed(outs, handles) == {q \in outs : handles = {} \/ <<"out", q>> \in handles}

\* an output queue is closed at most once and no source queue is closed
ClosedOnceAndSourcesOpen ==
    /\ \A q \in 1..Len(group.outs) : group.outs[q].closes <= 1
    /\ \A b \in Buses : ~group.srcs[b].closed

C28_FlushResetsForReuse ==
    [][/\ group'.last.op = "Flush" =>
             /\ group'.listeners = <<>>
             /\ \A b \in Buses : group'.fwd[b].st = "none"
       /\ group'.last.op = "On" =>
             LET q == group'.last.val[2]
             IN  /\ group'.listeners = Append(group.listeners, q)
                 /\ q \notin SeqToSet(group.listeners)
                 /\ group'.outs[q] = [buf |-> <<>>, closed |-> FALSE, closes |-> 0, got |-> <<>>]
       /\ (group'.last.op = "Off" /\ group'.last.args = {}) =>
             group'.listeners = <<>>
       /\ group'.last.op = "Forward" =>
             \A q \in SeqToSet(group.listeners) :
                 Written(q)' = Append(Written(q), group.fwd[CHOOSE b \in group'.last.args : TRUE].ev)]_vars

\* On, Flush, On, Off() with a publication forwarded to the second output
C28_Witness ==
    /\ group.last.op = "Off" /\ group.last.args = {}
    /\ Len(group.outs) = 2 /\ group.listeners = <<>>
    /\ ~group.outs[1].closed /\ Written(1) = <<>>
    /\ group.outs[2].closed /\ Written(2) = <<1>>


\* C25: the close of done at the end of a topic (emitter.go:281), which no
\* recover guards, never finds done already closed.
C25_EmitClosesDoneOnce ==
    [][\A p \in Pubs :
          (pubs[p].pc = "listeners" /\ pubs[p].i = 0 /\ ~pubs[p].haveToWait)
              => ~(pubs[p].done.closed /\ pubs'[p].pc = "panic")]_vars


\* the asynchronous delivery k of publication p is suspended in pushEvent:
\* it waits, and neither the queue nor done is ready
TaskSuspended(p, k) ==
    LET t == pubs[p].tasks[k]
    IN  /\ t.pc = "push"
        /\ send(pubs[p].done, chans[t.l], pushWait(t.ev.Flags)) = {}

\* Emit of publication p is suspended in the pushEvent of a Sync listener
SyncSuspended(p) ==
    /\ pubs[p].pc = "listeners"
    /\ pubs[p].i >= 1
    /\ LET l == listeners[pubs[p].cur][pubs[p].i]
           flags == applyMiddlewares(pubs[p].flags, lmws[l])
       IN  /\ "Void" \notin flags
           /\ "Sync" \in flags
           /\ send(pubs[p].done, chans[l], pushWait(flags)) = {}

\* C26: while a delivery is suspended on a queue send or on the
\* cancellation signal the registry mutex is free, so that On, Off,
\* Listeners, Topics and other Emits can proceed.
C26_MutexFreeWhileSuspended ==
    \A p \in Pubs :
        (SyncSuspended(p) \/ \E k \in 1..Len(pubs[p].tasks) : TaskSuspended(p, k))
            => mu = Free


TopicsCalled == calls' # calls /\ ret'.op = "Topics"

\* no key of the registry maps to an empty sequence of listeners
NoEmptyTopic == \A k \in DOMAIN listeners : listeners[k] # <<>>

\* C27: no topic key maps to an empty listener sequence, whatever removed
\* the last listener (Off, or the removal after a Once or Close delivery);
\* Topics returns each topic that has a listener once and nothing else, and
\* Listeners returns only handles of listeners that are registered.
C27_NoEmptyTopicKey ==
    /\ []NoEmptyTopic
    /\ [][/\ TopicsCalled =>
                /\ SeqToSet(ret'.val) = {k \in DOMAIN listeners : listeners[k] # <<>>}
                /\ Len(ret'.val) = Cardinality(SeqToSet(ret'.val))
          /\ (ListenersCalled /\ ~ret'.err) =>
                /\ SeqToSet(ret'.val) \subseteq Registered
                /\ \A l \in SeqToSet(ret'.val) : ~chans[l].closed]_vars

\* Topics returns "b" alone after the one listener of "a" was removed
\* following a delivery
C27_Witness ==
    /\ ret.op = "Topics" /\ ret.val = <<TopicB>>
    /\ Len(chans) = 2
    /\ \E k \in 1..Len(pubs[1].tasks) :
          /\ pubs[1].tasks[k].pc = "fin"
          /\ chans[pubs[1].tasks[k].l].closed
          /\ listeners = (TopicB :> <<3 - pubs[1].tasks[k].l>>)


\* C29: no delivery task, holding the copy of the listener that Emit took,
\* sends on a queue that Off or the removal of another publication has
\* closed.
C29_NoSendOnClosedQueue ==
    \A p \in Pubs : \A k \in 1..Len(pubs[p].tasks) : pubs[p].tasks[k].pc # "panic"


\* the publications that were sent to listener l
SentTo(l) ==
    {p \in Pubs : \E i \in 1..Len(pubs[p].log[l]) : pubs[p].log[l][i].res = "sent"}

\* C30: a listener whose own middlewares set Once is sent at most one event
\* over its lifetime, whatever the publications and the capacity.
C30_OnceListenerGetsOneEvent ==
    \A l \in Chans :
        "Once" \in SeqToSet(lmws[l]) => Cardinality(SentTo(l)) <= 1


\* publication p has a delivery to listener l that ended as canceled
CanceledOn(p, l) ==
    \E i \in 1..Len(pubs[p].log[l]) : pubs[p].log[l][i].res = "canceled"

\* C31: a delivery ends as canceled only when the caller has closed done or
\* sent a value into it; the close of done by Emit itself cancels nothing.
C31_CanceledOnlyByCaller ==
    \A p \in Pubs : \A l \in Chans : CanceledOn(p, l) => pubs[p].cancelled


\* in this step Emit of publication p applies the topic-wide middlewares to
\* the event of the matched topic t
VisitsTopic(p, t) == t \notin DOMAIN pubs[p].base /\ t \in DOMAIN pubs'[p].base

\* C32: the flags Emit computes for the event of a matched topic are the
\* same in whatever order the patterns of the topic-wide middlewares are
\* visited, so every listener of the topic gets the same effective flags in
\* every execution from the same registry.
C32_EffectiveFlagsDeterministic ==
    [][\A p \in Pubs : \A t \in DOMAIN listeners :
          VisitsTopic(p, t) =>
              /\ \A fns \in getMiddlewares(t) :
                    pubs'[p].base[t] = applyMiddlewares(FlagReset, fns)
              /\ \A i \in 1..Len(listeners[t]) :
                    Cardinality(EffectiveFlags(t, listeners[t][i])) = 1]_vars

=============================================================================
